---- MODULE Spec2Model ----
(***************************************************************************)
(* Request/response pipeline of harborapi: the status checker of           *)
(* harborapi/exceptions.py and the retrying transport methods (with the    *)
(* pagination aggregator) of harborapi/client.py.                          *)
(*                                                                         *)
(* JSON values, texts and "None" are records [kind, items]; items of an    *)
(* array page are numbered page*10 + index so that pages are told apart.   *)
(***************************************************************************)
EXTENDS Integers, Sequences, FiniteSets, TLC

VARIABLES
    chk,        \* harness of the status checker: its input and what it raised
    client,     \* the client object: the arguments of its construction and its fields
    enc,        \* harness of the request body: what post/put/patch were given and sent
    ep,         \* harness of the endpoint methods: what get gave them and what they gave
    tasks,      \* the get() calls that run concurrently on the client, each with its chain
    pages,      \* the server's resources in link order, revealed when first requested
    stack,      \* chain of active get()/post()/... invocations, outermost first
    sent,       \* log of the paths (page numbers) requested by the current call
    sentHeaders,\* log of the headers of these requests
    sentRequests,\* log of the URL and the query parameters of these requests
    outcome,    \* what the current call gave to its caller
    warnings,   \* number of "Unable to handle paginated results" warnings logged
    connErrors, \* number of RequestErrors the transport produced in the current call
    now,        \* seconds since the current call began
    up,         \* whether the endpoint is reachable
    drops       \* how often the endpoint became unreachable

vars == <<chk, client, enc, ep, tasks, pages, stack, sent, sentHeaders, sentRequests, outcome,
          warnings, connErrors, now, up, drops>>
pureVars == <<chk, client, enc, ep, tasks>>
transportVars == <<pages, stack, sent, sentHeaders, sentRequests, outcome, warnings,
                   connErrors, now, up, drops>>

----------------------------------------------------------------------------
(* Bounds *)

MaxPages == 3       \* longest chain of linked pages
MaxItems == 2       \* largest page
MaxSent == 4        \* the request log keeps this many entries
TriesCap == 2       \* the tries counter of backoff saturates here
MaxErrs == 2        \* the RequestError counter saturates here
MaxClock == 40      \* the clock stops here
TickLen == 20       \* resolution of the clock, in seconds
MaxDrops == 1       \* the endpoint becomes unreachable at most this often per call
MaxSegs == 3        \* most path segments of the URL a client is constructed with
MaxSlashes == 2     \* most slashes at the end of that URL
MaxUsers == 4       \* longest array of users an endpoint method is given

Min(a, b) == IF a < b THEN a ELSE b

----------------------------------------------------------------------------
(* Values *)

None == [kind |-> "none", items |-> <<>>]
Array(s) == [kind |-> "array", items |-> s]
Object(s) == [kind |-> "object", items |-> s]
ErrorsBody(s) == [kind |-> "errors", items |-> s]   \* the object {"errors": [...]}
Text(s) == [kind |-> "text", items |-> s]

PageItems(p, n) == [i \in 1..n |-> p * 10 + i]

\* The bodies a server may answer with for page p, with their content type.
Bodies(p) ==
    {[content_type |-> "application/json", body |-> Array(PageItems(p, n))] : n \in 0..MaxItems}
    \cup {[content_type |-> "application/json", body |-> Object(<<p>>)],
          [content_type |-> "application/json", body |-> ErrorsBody(<<p>>)],
          [content_type |-> "application/json", body |-> ErrorsBody(<<>>)],
          [content_type |-> "text/plain", body |-> Text(<<p>>)],
          [content_type |-> "", body |-> Text(<<>>)]}

Response(s, b, l) ==
    [status_code |-> s, content_type |-> b.content_type, body |-> b.body, link |-> l]

----------------------------------------------------------------------------
(* harborapi/exceptions.py *)

NoCause == [type |-> "none", status_code |-> 0]
NoExc == [kind |-> "none", errors |-> <<>>, cause |-> NoCause]

\* httpx.Response.raise_for_status: raises HTTPStatusError unless is_success.
OldRaiseForStatus(response) == response.status_code \in 400..599
raise_for_status(response) == response.status_code \notin 200..299

\* harborapi.utils.is_json
is_json(response) == response.content_type = "application/json"

\* Errors(**response.json()), None when that raises or the body is not JSON.
try_parse_errors(response) ==
    IF is_json(response) /\ response.body.kind \in {"object", "errors"}
    THEN [parsed |-> TRUE,
          errors |-> IF response.body.kind = "errors" THEN response.body.items ELSE <<>>]
    ELSE [parsed |-> FALSE, errors |-> <<>>]

\* StatusError.__init__(errors=None): self.errors
StatusError_init(errors) ==
    IF errors.parsed /\ errors.errors # <<>> THEN errors.errors ELSE <<>>

NoErrorsArg == [parsed |-> FALSE, errors |-> <<>>]

\* StatusError.status_code: self.__cause__.response.status_code, None (0) on failure
status_code(exc) ==
    IF exc.cause.type = "HTTPStatusError" THEN exc.cause.status_code ELSE 0

exceptionsShort ==
    [c \in {400, 401, 403, 404, 500} |->
        CASE c = 400 -> "BadRequest"
          [] c = 401 -> "Unauthorized"
          [] c = 403 -> "Forbidden"
          [] c = 404 -> "NotFound"
          [] c = 500 -> "InternalServerError"]
exceptions ==
    [c \in {400, 401, 403, 404, 412, 500} |->
        CASE c = 400 -> "BadRequest"
          [] c = 401 -> "Unauthorized"
          [] c = 403 -> "Forbidden"
          [] c = 404 -> "NotFound"
          [] c = 412 -> "PreconditionFailed"
          [] c = 500 -> "InternalServerError"]

\* exceptions.get(status_code, StatusError)
ExceptionFor(code) ==
    IF code \in DOMAIN exceptions THEN exceptions[code] ELSE "StatusError"

\* The exception check_response_status raises, NoExc when it returns.
check_response_status(response, missing_ok) ==
    IF ~raise_for_status(response) THEN NoExc
    ELSE IF missing_ok /\ response.status_code = 404 THEN NoExc
    ELSE [kind |-> ExceptionFor(response.status_code),
          errors |-> StatusError_init(NoErrorsArg),
          cause |-> [type |-> "HTTPStatusError", status_code |-> response.status_code]]

----------------------------------------------------------------------------
(* harborapi/client.py: construction of the client and the request headers *)
(*                                                                          *)
(* Strings are sequences of tokens: "/" is the slash, "api" and "v" are the *)
(* texts the constructor looks for, every other token is text without "/".  *)
(* The empty sequence stands for "" and for None, which the code treats     *)
(* alike (both are falsy).                                                  *)

\* str.strip("/"): the slashes at both ends removed
RECURSIVE lstrip(_)
lstrip(s) == IF s # <<>> /\ Head(s) = "/" THEN lstrip(Tail(s)) ELSE s
RECURSIVE rstrip(_)
rstrip(s) == IF s # <<>> /\ s[Len(s)] = "/" THEN rstrip(SubSeq(s, 1, Len(s) - 1)) ELSE s
strip(s) == rstrip(lstrip(s))

\* sub in s, for strings
In(sub, s) ==
    \E i \in 1..(Len(s) - Len(sub) + 1) : SubSeq(s, i, i + Len(sub) - 1) = sub

\* harborapi.utils.get_credentials: the base64 encoding of "username:secret"
get_credentials(username, secret) == <<"b64">> \o username \o <<":">> \o secret

NoCredentials == [ok |-> FALSE, credentials |-> <<>>]

init_credentials_token_first(username, secret, credentials) ==
    IF credentials # <<>> THEN [ok |-> TRUE, credentials |-> credentials]
    ELSE IF username # <<>> /\ secret # <<>>
    THEN [ok |-> TRUE, credentials |-> get_credentials(username, secret)]
    ELSE NoCredentials
\* __init__: self.credentials, or the ValueError (ok false)
init_credentials(username, secret, credentials) ==
    IF username # <<>> /\ secret # <<>>
    THEN [ok |-> TRUE, credentials |-> get_credentials(username, secret)]
    ELSE IF credentials # <<>> THEN [ok |-> TRUE, credentials |-> credentials]
    ELSE NoCredentials

init_url_append_always(url, version) ==
    LET u == strip(url)
        v == IF version # <<>>
             THEN IF In(<<"/", "api">>, u) THEN strip(u) \o <<"/">> \o version
                  ELSE u \o <<"/", "api", "/">> \o version
             ELSE u
    IN  strip(v)
\* __init__: self.url
init_url(url, version) ==
    LET u == strip(url)
        v == IF version # <<>> /\ ~In(<<"/", "api", "/", "v">>, u)
             THEN IF In(<<"/", "api">>, u) THEN strip(u) \o <<"/">> \o version
                  ELSE u \o <<"/", "api", "/">> \o version
             ELSE u
    IN  strip(v)

\* The client before __init__ ran.
NewClient(args) ==
    [state |-> "new", args |-> args, url |-> <<>>, credentials |-> <<>>, config |-> "None",
     exc |-> "none"]

\* _HarborClientBase.__init__: the credentials first, then the URL.
HarborClientBase_init(args) ==
    LET c == init_credentials(args.username, args.secret, args.credentials)
    IN  IF ~c.ok THEN [NewClient(args) EXCEPT !.state = "failed", !.exc = "ValueError"]
        ELSE [NewClient(args) EXCEPT !.state = "built", !.credentials = c.credentials,
                                     !.url = init_url(args.url, args.version),
                                     !.config = args.config]

\* HarborAsyncClient(url="https://h", username="user", secret="secret")
DefaultArgs ==
    [url |-> <<"https:", "/", "/", "h">>, version |-> <<"v", "2.0">>,
     username |-> <<"user">>, secret |-> <<"secret">>, credentials |-> <<>>,
     config |-> "config"]

client0 == HarborClientBase_init(DefaultArgs)

\* The query parameters the endpoint methods of the model use.
ParamKeys ==
    {"page", "page_size", "q", "sort", "with_tag", "with_label", "with_scan_overview",
     "with_signature", "with_immutable_status", "with_accessory", "scope", "relative"}

\* params=None, or {}: no key has a value
NoParams == [k \in ParamKeys |-> "absent"]

HeaderKeys == {"Authorization", "Accept", "X-Accept-Vulnerabilities"}

\* headers=None, or {}: no key has a value
NoHeaders == [k \in HeaderKeys |-> <<>>]

get_headers_defaults_win(headers) ==
    LET base_headers ==
            [k \in HeaderKeys |->
                CASE k = "Authorization" -> <<"Basic">> \o client.credentials
                  [] k = "Accept" -> <<"application/json">>
                  [] OTHER -> <<>>]
    IN  [k \in HeaderKeys |-> IF base_headers[k] # <<>> THEN base_headers[k] ELSE headers[k]]
\* _get_headers: the two base headers updated by the headers of the caller
get_headers(headers) ==
    LET base_headers ==
            [k \in HeaderKeys |->
                CASE k = "Authorization" -> <<"Basic">> \o client.credentials
                  [] k = "Accept" -> <<"application/json">>
                  [] OTHER -> <<>>]
    IN  [k \in HeaderKeys |-> IF headers[k] # <<>> THEN headers[k] ELSE base_headers[k]]

\* The fields of a request model such as ScannerRegistrationReq.
Fields == {"name", "url", "description"}

\* pydantic BaseModel.dict(): every field of the model, a field that was
\* never set with its default, None.
BaseModel_dict(m) == [f \in Fields |-> IF m[f] = "unset" THEN "None" ELSE m[f]]

\* The JSON text httpx makes of the json= argument, key by key: a key
\* that is not in the mapping is not in the text, None becomes null.
json_dumps(d) ==
    [f \in Fields |->
        CASE d[f] = "absent" -> "absent"
          [] d[f] = "None" -> "null"
          [] OTHER -> "\"a\""]

\* _post, _put, _patch: the body of the request for the json argument
request_json(kind, json) ==
    json_dumps(IF kind = "BaseModel" THEN BaseModel_dict(json) ELSE json)

\* The harnesses of the request body and of the endpoint methods at rest.
enc0 == [verb |-> "none", kind |-> "dict", json |-> [f \in Fields |-> "absent"],
         done |-> FALSE, sent |-> [f \in Fields |-> "absent"]]
\* The keyword arguments of the endpoint methods at their defaults
\* ("" stands for None).
args0 ==
    [query |-> "", sort |-> "", page |-> "1", page_size |-> "10", with_tag |-> "True",
     with_label |-> "False", with_scan_overview |-> "False", with_signature |-> "False",
     with_immutable_status |-> "False", with_accessory |-> "False", scope |-> "",
     relative |-> "False"]

NoRequest == [url |-> <<>>, params |-> NoParams]

ep0 == [method |-> "none", args |-> args0, resp |-> None, mime_type |-> "none",
        missing_ok |-> FALSE, done |-> FALSE, request |-> NoRequest, value |-> None,
        exc |-> "none"]

----------------------------------------------------------------------------
(* The status checker applied to every response *)

StatusCodes == 100..599

CheckerInputs ==
    {[response |-> Response(s, b, FALSE), missing_ok |-> m, called |-> FALSE, exc |-> NoExc] :
        s \in StatusCodes, b \in Bodies(1), m \in BOOLEAN}

chk0 == [response |-> Response(200, [content_type |-> "", body |-> Text(<<>>)], FALSE),
         missing_ok |-> FALSE, called |-> FALSE, exc |-> NoExc]

Idle == [state |-> "idle", verb |-> "none", params |-> NoParams, headers |-> NoHeaders,
         follow_links |-> TRUE,
         missing_ok |-> FALSE, value |-> None, exc |-> NoExc]

\* The coroutines that call get() concurrently on the one client.
Tasks == {1, 2}

tasks0 ==
    [t \in Tasks |-> [state |-> "idle", stack |-> <<>>, pages |-> <<>>, value |-> None,
                      exc |-> NoExc]]

TransportInit ==
    /\ tasks = tasks0
    /\ pages = <<>>
    /\ stack = <<>>
    /\ sent = <<>>
    /\ sentHeaders = <<>>
    /\ sentRequests = <<>>
    /\ outcome = Idle
    /\ warnings = 0
    /\ connErrors = 0
    /\ now = 0

StatusInit ==
    /\ chk \in CheckerInputs
    /\ client = client0
    /\ enc = enc0
    /\ ep = ep0
    /\ TransportInit
    /\ up = TRUE
    /\ drops = 0

CheckStatus ==
    /\ ~chk.called
    /\ chk' = [chk EXCEPT !.called = TRUE,
                          !.exc = check_response_status(chk.response, chk.missing_ok)]
    /\ UNCHANGED <<client, enc, ep, tasks, transportVars>>

StatusNext == CheckStatus

StatusSpec == StatusInit /\ [][StatusNext]_vars

----------------------------------------------------------------------------
(* harborapi/utils.py *)

\* handle_optional_json_response: the parsed JSON body, None when the body is not JSON
handle_optional_json_response(resp) ==
    IF is_json(resp) THEN resp.body ELSE None

----------------------------------------------------------------------------
(* backoff.on_exception(backoff.expo, RequestError, ...) as the verb methods use it *)

Verbs == {"get", "get_text", "post", "put", "patch", "delete"}

max_tries_three(verb) == IF verb = "post" THEN 3 ELSE 0
\* max_tries of the decorator of each verb method; 0 stands for None
max_tries(verb) == IF verb = "post" THEN 1 ELSE 0

max_time_short(verb) == IF verb = "post" THEN 0 ELSE 3
\* max_time of the decorator of each verb method; 0 stands for None
max_time(verb) == IF verb = "post" THEN 0 ELSE 30

\* backoff gives up when tries == max_tries or elapsed >= max_time
GiveUp(f) ==
    \/ max_tries(f.verb) # 0 /\ f.tries = max_tries(f.verb)
    \/ max_time(f.verb) # 0 /\ f.elapsed >= max_time(f.verb)

\* backoff.expo: 1, 2, 4, ...
expo(tries) == 2 ^ (tries - 1)

\* Longest sleep after a failed attempt: full jitter draws from [0, expo], and
\* the sleep never exceeds the rest of max_time.  A saturated tries counter
\* stands for any later attempt.
SleepMax(f) ==
    LET value == IF f.tries >= TriesCap THEN MaxClock ELSE expo(f.tries)
    IN  IF max_time(f.verb) = 0 THEN value
        ELSE Min(value, max_time(f.verb) - f.elapsed)

\* Sleeps as the clock sees them: rounded up to its resolution.
SleepChoices(f) ==
    {s \in 0..(SleepMax(f) + TickLen - 1) : s % TickLen = 0 /\ now + s <= MaxClock}

----------------------------------------------------------------------------
(* harborapi/client.py: the verb methods *)

Top(st) == st[Len(st)]
Pop(st) == SubSeq(st, 1, Len(st) - 1)

\* The path the caller of the model asks for.
OwnPath == <<"/", "users">>

\* The link header of the response for page p: the reference to page p + 1.
LinkValue(p) == OwnPath \o <<"?page=", ToString(p + 1)>>

\* One invocation of a decorated verb method: path is the page the server
\* serves for path_arg, the path argument itself.
NewFrame(verb, path, path_arg, params, headers, follow_links, missing_ok) ==
    [verb |-> verb, path |-> path, path_arg |-> path_arg, params |-> params,
     headers |-> headers, follow_links |-> follow_links,
     missing_ok |-> missing_ok, tries |-> 0, start |-> now, elapsed |-> 0,
     data |-> None, phase |-> "ready", wake |-> 0]

AttemptUpdatesCallerHeaders(f) ==
    [f EXCEPT !.tries = Min(@ + 1, TriesCap), !.elapsed = now - f.start,
              !.data = None, !.phase = "inflight", !.wake = 0,
              !.headers = get_headers(f.headers)]
\* One pass of the retry loop up to the request being sent.
Attempt(f) ==
    [f EXCEPT !.tries = Min(@ + 1, TriesCap), !.elapsed = now - f.start,
              !.data = None, !.phase = "inflight", !.wake = 0]

LogTwice(p) == IF Len(sent) + 1 < MaxSent THEN sent \o <<p, p>> ELSE sent
Log(p) == IF Len(sent) < MaxSent THEN Append(sent, p) ELSE sent

\* The request of frame f goes out with headers=self._get_headers(headers).
LogHeaders(f) ==
    IF Len(sentHeaders) < MaxSent THEN Append(sentHeaders, get_headers(f.headers))
    ELSE sentHeaders

\* The request of frame f goes to self.url + path with params=params.
LogRequest(f) ==
    IF Len(sentRequests) < MaxSent
    THEN Append(sentRequests, [url |-> client.url \o f.path_arg, params |-> f.params])
    ELSE sentRequests

\* The caller invokes get, get_text, post, put, patch or delete.
Call(verb, params, headers, follow_links, missing_ok) ==
    /\ outcome.state = "idle"
    /\ stack' = <<Attempt(NewFrame(verb, 1, OwnPath, params, headers, follow_links,
                                   missing_ok))>>
    /\ sent' = Log(1)
    /\ sentHeaders' = LogHeaders(stack'[1])
    /\ sentRequests' = LogRequest(stack'[1])
    /\ outcome' = [Idle EXCEPT !.state = "running", !.verb = verb, !.params = params,
                               !.headers = headers,
                               !.follow_links = follow_links, !.missing_ok = missing_ok]
    /\ UNCHANGED <<pureVars, pages, warnings, connErrors, now, up, drops>>

handle_pagination_prepend(data, j) ==
    IF j.kind # "array" \/ data.kind # "array"
    THEN [value |-> data, warned |-> 1]
    ELSE [value |-> Array(j.items \o data.items), warned |-> 0]
handle_pagination_newest(data, j) ==
    IF j.kind # "array" \/ data.kind # "array"
    THEN [value |-> j, warned |-> 1]
    ELSE [value |-> Array(data.items \o j.items), warned |-> 0]
\* _handle_pagination after self.get(link) returned j
\* (data.extend(j), or the warning and data unchanged).
handle_pagination(data, j) ==
    IF j.kind # "array" \/ data.kind # "array"
    THEN [value |-> data, warned |-> 1]
    ELSE [value |-> Array(data.items \o j.items), warned |-> 0]

\* A value returned by the innermost invocation travels up the chain of
\* _handle_pagination / _get / get frames that await it.
RECURSIVE Unwind(_, _, _)
Unwind(st, v, w) ==
    IF st = <<>> THEN [value |-> v, warnings |-> w]
    ELSE LET r == handle_pagination(Top(st).data, v)
         IN  Unwind(Pop(st), r.value, w + r.warned)

Return(v) ==
    LET r == Unwind(Pop(stack), v, warnings)
    IN  /\ outcome' = [outcome EXCEPT !.state = "returned", !.value = r.value]
        /\ warnings' = r.warnings
        /\ stack' = <<>>
        /\ UNCHANGED <<sent, sentHeaders, sentRequests>>

RaiseThenRetry(exc) ==
    /\ stack' = [stack EXCEPT ![Len(stack)] = [@ EXCEPT !.phase = "sleeping", !.wake = now]]
    /\ UNCHANGED <<outcome, sent, sentHeaders, sentRequests, warnings>>
RaiseWithPartialResult(exc) ==
    /\ outcome' = [outcome EXCEPT !.state = "raised", !.exc = exc, !.value = stack[1].data]
    /\ stack' = <<>>
    /\ UNCHANGED <<sent, sentHeaders, sentRequests, warnings>>
\* An exception that no retry decorator catches reaches the caller.
Raise(exc) ==
    /\ outcome' = [outcome EXCEPT !.state = "raised", !.exc = exc]
    /\ stack' = <<>>
    /\ UNCHANGED <<sent, sentHeaders, sentRequests, warnings>>

continuation_inherits(f, link) ==
    [path_arg |-> link, params |-> f.params, headers |-> f.headers]
\* self.get(link): the arguments of the call for the next page, made by the
\* invocation f (params, headers, follow_links and missing_ok at their defaults)
continuation(f, link) ==
    [path_arg |-> link, params |-> NoParams, headers |-> NoHeaders]

\* _get found a link header: _handle_pagination calls self.get(link).
Paginate(j) ==
    LET f == Top(stack)
        waiting == [f EXCEPT !.data = j, !.phase = "awaiting"]
        c == continuation(f, LinkValue(f.path))
    IN  /\ stack' = Append([stack EXCEPT ![Len(stack)] = waiting],
                           Attempt(NewFrame("get", f.path + 1, c.path_arg, c.params,
                                            c.headers, TRUE, FALSE)))
        /\ sent' = Log(f.path + 1)
        /\ sentHeaders' = LogHeaders(Top(stack'))
        /\ sentRequests' = LogRequest(Top(stack'))
        /\ UNCHANGED <<outcome, warnings>>

\* if (link := resp.headers.get("link")) and follow_links
FollowLinkAlways(resp, follow_links) == resp.link
FollowLink(resp, follow_links) == resp.link /\ follow_links

ResponseValue(resp) == [kind |-> "response", items |-> <<resp.status_code>>]

HandleResponsePatchUnchecked(resp) ==
    LET f == Top(stack)
        exc == IF f.verb = "patch" THEN NoExc ELSE check_response_status(resp, f.missing_ok)
        j == handle_optional_json_response(resp)
    IN  IF exc.kind # "none" THEN Raise(exc)
        ELSE IF f.verb \in {"get", "get_text"}
        THEN IF j = None THEN Return(Text(resp.body.items))
             ELSE IF FollowLink(resp, f.follow_links) THEN Paginate(j)
             ELSE Return(j)
        ELSE IF f.verb = "post" THEN Return(ResponseValue(resp))
        ELSE Return(j)
\* _get, _post, _put, _patch, _delete and their callers after the response arrived.
HandleResponse(resp) ==
    LET f == Top(stack)
        exc == check_response_status(resp, f.missing_ok)
        j == handle_optional_json_response(resp)
    IN  IF exc.kind # "none" THEN Raise(exc)
        ELSE IF f.verb \in {"get", "get_text"}
        THEN IF j = None THEN Return(Text(resp.body.items))
             ELSE IF FollowLink(resp, f.follow_links) THEN Paginate(j)
             ELSE Return(j)
        ELSE IF f.verb = "post" THEN Return(ResponseValue(resp))
        ELSE Return(j)

\* What the server may answer for page p: a success with any body, with or
\* without a link header (the last page of a chain has none), or an error
\* status with or without a JSON error body.
ErrorBodies(p) ==
    {[content_type |-> "application/json", body |-> ErrorsBody(<<p>>)],
     [content_type |-> "", body |-> Text(<<>>)]}

SuccessBodies(p) ==
    {b \in Bodies(p) : b.body.kind # "errors"}

\* The link header is read from JSON responses only (_get returns resp.text
\* before it looks at the headers), so only those are given one.
ResponseSet(p) ==
    {Response(200, b, FALSE) : b \in SuccessBodies(p)}
    \cup {Response(200, b, TRUE) : b \in {c \in SuccessBodies(p) : p < MaxPages /\ is_json(c)}}
    \cup {Response(s, b, FALSE) : s \in {301, 404, 500}, b \in ErrorBodies(p)}

ServerResponses(p) == IF p <= Len(pages) THEN {pages[p]} ELSE ResponseSet(p)

\* The awaited request completes with a response.
ReceiveResponse(resp) ==
    /\ outcome.state = "running"
    /\ Top(stack).phase = "inflight"
    /\ up
    /\ resp \in ServerResponses(Top(stack).path)
    /\ pages' = IF Top(stack).path <= Len(pages) THEN pages ELSE Append(pages, resp)
    /\ HandleResponse(resp)
    /\ UNCHANGED <<pureVars, connErrors, now, up, drops>>

\* The frames left after a RequestError passed every decorator that gives up.
RECURSIVE Survive(_)
Survive(st) ==
    IF st = <<>> THEN <<>>
    ELSE IF GiveUp(Top(st)) THEN Survive(Pop(st))
    ELSE st

RequestError == [kind |-> "RequestError", errors |-> <<>>, cause |-> NoCause]

\* The awaited request fails with a RequestError: each decorator on the way
\* up either gives up (re-raising) or sleeps before its next attempt.
ReceiveRequestError ==
    /\ outcome.state = "running"
    /\ Top(stack).phase = "inflight"
    /\ ~up
    /\ connErrors' = Min(connErrors + 1, MaxErrs)
    /\ LET st == Survive(stack)
       IN  IF st = <<>>
           THEN /\ outcome' = [outcome EXCEPT !.state = "raised", !.exc = RequestError]
                /\ stack' = <<>>
           ELSE /\ \E s \in SleepChoices(Top(st)) :
                     stack' = [st EXCEPT ![Len(st)] =
                                  [@ EXCEPT !.phase = "sleeping", !.wake = now + s,
                                            !.data = None]]
                /\ UNCHANGED outcome
    /\ UNCHANGED <<pureVars, pages, sent, sentHeaders, sentRequests, warnings, now, up, drops>>

\* The sleep of the retry loop is over: the next attempt sends its request.
Wake ==
    /\ outcome.state = "running"
    /\ Top(stack).phase = "sleeping"
    /\ now >= Top(stack).wake
    /\ stack' = [stack EXCEPT ![Len(stack)] = Attempt(@)]
    /\ sent' = Log(Top(stack).path)
    /\ sentHeaders' = LogHeaders(Top(stack))
    /\ sentRequests' = LogRequest(Top(stack))
    /\ UNCHANGED <<pureVars, pages, outcome, warnings, connErrors, now, up, drops>>

\* The caller has its result; the next call starts afresh.
Reset ==
    /\ outcome.state \in {"returned", "raised"}
    /\ pages' = <<>>
    /\ stack' = <<>>
    /\ sent' = <<>>
    /\ sentHeaders' = <<>>
    /\ sentRequests' = <<>>
    /\ outcome' = Idle
    /\ warnings' = 0
    /\ connErrors' = 0
    /\ now' = 0
    /\ up' \in BOOLEAN
    /\ drops' = IF up' THEN 0 ELSE 1
    /\ UNCHANGED pureVars

----------------------------------------------------------------------------
(* Environment: time and the reachability of the endpoint *)

Tick ==
    /\ outcome.state = "running"
    /\ now + TickLen <= MaxClock
    /\ now' = now + TickLen
    /\ UNCHANGED <<pureVars, pages, stack, sent, sentHeaders, sentRequests, outcome, warnings, connErrors,
                   up, drops>>

EnvDown ==
    /\ outcome.state = "running"
    /\ Top(stack).phase = "inflight"
    /\ up
    /\ drops < MaxDrops
    /\ up' = FALSE
    /\ drops' = drops + 1
    /\ UNCHANGED <<pureVars, pages, stack, sent, sentHeaders, sentRequests, outcome, warnings, connErrors,
                   now>>

EnvUp ==
    /\ outcome.state = "running"
    /\ ~up
    /\ up' = TRUE
    /\ UNCHANGED <<pureVars, pages, stack, sent, sentHeaders, sentRequests, outcome, warnings, connErrors,
                   now, drops>>

----------------------------------------------------------------------------
(* Specifications *)

Init ==
    /\ chk = chk0
    /\ client = client0
    /\ enc = enc0
    /\ ep = ep0
    /\ TransportInit
    /\ up \in BOOLEAN
    /\ drops = IF up THEN 0 ELSE 1

AnyCall ==
    \E verb \in Verbs, follow_links, missing_ok \in BOOLEAN :
        /\ verb \notin {"get", "get_text"} => follow_links
        /\ verb # "delete" => ~missing_ok
        /\ Call(verb, NoParams, NoHeaders, follow_links, missing_ok)

Receive ==
    /\ stack # <<>>
    /\ \E resp \in ResponseSet(Top(stack).path) : ReceiveResponse(resp)

Next ==
    \/ AnyCall
    \/ Receive
    \/ ReceiveRequestError
    \/ Wake
    \/ Reset
    \/ Tick
    \/ EnvDown
    \/ EnvUp

Spec == Init /\ [][Next]_vars

----------------------------------------------------------------------------
(* Construction of a client from every combination of arguments *)

Hosts == {<<"h">>, <<"api", "h">>}              \* "h" and "apih"
Segments == {<<"api">>, <<"v">>, <<"v", "2.0">>, <<"h">>}
Versions == {<<>>, <<"v", "2.0">>, <<"v", "1.0">>}

RECURSIVE Paths(_)
Paths(n) ==
    IF n = 0 THEN {<<>>}
    ELSE {<<>>} \cup {<<"/">> \o seg \o p : seg \in Segments, p \in Paths(n - 1)}

Slashes(n) == [i \in 1..n |-> "/"]

\* "https://" host path, with slashes at the end
Urls ==
    {<<"https:", "/", "/">> \o host \o p \o Slashes(n) :
        host \in Hosts, p \in Paths(MaxSegs), n \in 0..MaxSlashes}

CtorArgs ==
    [url : Urls, version : Versions, username : {<<>>, <<"user">>},
     secret : {<<>>, <<"secret">>}, credentials : {<<>>, <<"token">>}, config : {"None"}]

ConstructInit ==
    /\ chk = chk0
    /\ client \in {NewClient(args) : args \in CtorArgs}
    /\ enc = enc0
    /\ ep = ep0
    /\ TransportInit
    /\ up = TRUE
    /\ drops = 0

\* HarborAsyncClient(url, username, secret, credentials, version=version)
Construct ==
    /\ client.state = "new"
    /\ client' = HarborClientBase_init(client.args)
    /\ UNCHANGED <<chk, enc, ep, tasks, transportVars>>

ConstructNext == Construct

ConstructSpec == ConstructInit /\ [][ConstructNext]_vars

----------------------------------------------------------------------------
(* post, put and patch given a request model or a raw mapping as json *)

\* A model whose fields were each left unset, set to None or set to "a", and
\* a dict that has each key with None, with "a", or not at all.
BodyInputs ==
    {[verb |-> verb, kind |-> "BaseModel", json |-> m, done |-> FALSE, sent |-> enc0.sent] :
        verb \in {"post", "put", "patch"}, m \in [Fields -> {"unset", "None", "a"}]}
    \cup
    {[verb |-> verb, kind |-> "dict", json |-> d, done |-> FALSE, sent |-> enc0.sent] :
        verb \in {"post", "put", "patch"}, d \in [Fields -> {"absent", "None", "a"}]}

BodyInit ==
    /\ chk = chk0
    /\ client = client0
    /\ enc \in BodyInputs
    /\ ep = ep0
    /\ TransportInit
    /\ up = TRUE
    /\ drops = 0

\* self.client.post/put/patch(self.url + path, json=json, ...)
SendBody ==
    /\ ~enc.done
    /\ enc' = [enc EXCEPT !.done = TRUE, !.sent = request_json(enc.kind, enc.json)]
    /\ UNCHANGED <<chk, client, ep, tasks, transportVars>>

BodyNext == SendBody

BodySpec == BodyInit /\ [][BodyNext]_vars

----------------------------------------------------------------------------
(* The endpoint methods get_users and get_artifact_vulnerabilities, applied  *)
(* to what self.get returned.  A JSON object inside these responses is named *)
(* by a string: "user_a" and "user_b" are objects that fit the schema of     *)
(* UserResp, "user_bad" ({"username": {}}) is one that does not, "report"    *)
(* fits HarborVulnerabilityReport, "report_bad" does not, "{}" is the empty  *)
(* object and "null" is null.  The listing methods and delete_scanner are   *)
(* applied likewise, with the request they make recorded: "tag_a" fits Tag,  *)
(* "bad" fits no schema.                                                     *)

\* cls.parse_obj(data) succeeds
Fits(cls, data) ==
    CASE cls = "UserResp" -> data \in {"user_a", "user_b", "{}"}
      [] cls = "HarborVulnerabilityReport" -> data \in {"report", "{}"}
      [] cls = "Tag" -> data \in {"tag_a", "tag_b", "{}"}
      [] cls = "Accessory" -> data \in {"accessory_a", "{}"}
      [] cls = "Artifact" -> data \in {"artifact_a", "{}"}
      [] cls = "Permission" -> data \in {"permission_a", "{}"}
      [] cls = "ScannerRegistration" ->
            /\ data.kind = "object"
            /\ \A i \in 1..Len(data.items) : data.items[i].value # "{}"
      [] OTHER -> FALSE

Model(cls, data) == [cls |-> cls, data |-> data]

construct_model_unvalidated(cls, data) == [ok |-> TRUE, obj |-> Model(cls, data)]
\* construct_model: the object, or the ValidationError re-raised (ok false)
construct_model(cls, data) ==
    IF Fits(cls, data) THEN [ok |-> TRUE, obj |-> Model(cls, data)]
    ELSE [ok |-> FALSE, obj |-> Model("none", "null")]

\* [construct_model(cls, u) for u in items]: the first failure ends it
RECURSIVE construct_models(_, _)
construct_models(cls, items) ==
    IF items = <<>> THEN [ok |-> TRUE, objs |-> <<>>]
    ELSE LET first == construct_model(cls, Head(items))
             rest == construct_models(cls, Tail(items))
         IN  IF first.ok /\ rest.ok THEN [ok |-> TRUE, objs |-> <<first.obj>> \o rest.objs]
             ELSE [ok |-> FALSE, objs |-> <<>>]

\* What an endpoint method gives its caller: a value or an exception.
Gives(kind, items) == [value |-> [kind |-> kind, items |-> items], exc |-> "none"]
Raises(exc) == [value |-> None, exc |-> exc]

\* get_users after self.get returned users_resp
get_users(users_resp) ==
    LET r == construct_models("UserResp", users_resp.items)
    IN  IF r.ok THEN Gives("list", r.objs) ELSE Raises("ValidationError")

\* resp.get(key): the value under the key, None ("null") without the key
dict_get(entries, key) ==
    IF \E i \in 1..Len(entries) : entries[i].key = key
    THEN entries[CHOOSE i \in 1..Len(entries) : entries[i].key = key].value
    ELSE "null"

\* not report
Falsy(data) == data \in {"null", "{}"}

get_artifact_vulnerabilities_any_key(resp, mime_type) ==
    IF resp.kind # "object" \/ resp.items = <<>> THEN Gives("none", <<>>)
    ELSE LET report == resp.items[1].value
         IN  IF Falsy(report) THEN Gives("none", <<>>)
             ELSE LET r == construct_model("HarborVulnerabilityReport", report)
                  IN  IF r.ok THEN Gives("model", <<r.obj>>) ELSE Raises("ValidationError")
\* get_artifact_vulnerabilities after self.get returned resp
get_artifact_vulnerabilities(resp, mime_type) ==
    IF resp.kind # "object" THEN Gives("none", <<>>)
    ELSE LET report == dict_get(resp.items, mime_type)
         IN  IF Falsy(report) THEN Gives("none", <<>>)
             ELSE LET r == construct_model("HarborVulnerabilityReport", report)
                  IN  IF r.ok THEN Gives("model", <<r.obj>>) ELSE Raises("ValidationError")

\* not scanner: None and the empty containers are false
Not(value) ==
    \/ value.kind = "none"
    \/ value.kind \in {"array", "object", "text"} /\ value.items = <<>>

delete_scanner_missing_always_ok(scanner, missing_ok) ==
    IF Not(scanner) THEN Gives("none", <<>>)
    ELSE LET r == construct_model("ScannerRegistration", scanner)
         IN  IF r.ok THEN Gives("model", <<r.obj>>) ELSE Raises("ValidationError")
\* delete_scanner after self.delete returned scanner
delete_scanner(scanner, missing_ok) ==
    IF Not(scanner)
    THEN IF missing_ok THEN Gives("none", <<>>) ELSE Raises("HarborAPIException")
    ELSE LET r == construct_model("ScannerRegistration", scanner)
         IN  IF r.ok THEN Gives("model", <<r.obj>>) ELSE Raises("ValidationError")

\* The request self.get(path, params=params) sends: _get asks for self.url + path.
GetRequest(path, params) == [url |-> client.url \o path, params |-> params]

\* [construct_model(cls, x) for x in resp]
ListOf(cls, resp) ==
    LET r == construct_models(cls, resp.items)
    IN  IF r.ok THEN Gives("list", r.objs) ELSE Raises("ValidationError")

\* if query: params["q"] = query; if sort: params["sort"] = sort
with_query_and_sort(params, args) ==
    [k \in ParamKeys |->
        IF k = "q" /\ args.query # "" THEN args.query
        ELSE IF k = "sort" /\ args.sort # "" THEN args.sort
        ELSE params[k]]

\* params = {key: value of the argument of that name, for the keys given}
params_of(keys, args) == [k \in ParamKeys |-> IF k \in keys THEN args[k] ELSE "absent"]

\* get_artifact_path(project_name, repository_name, reference)
get_artifact_path ==
    <<"/", "projects", "/", "p", "/", "repositories", "/", "r", "/", "artifacts", "/", "ref">>

\* get_artifact_tags: params is built, and self.get is called without it
get_artifact_tags(args, resp) ==
    LET path == get_artifact_path
        params == with_query_and_sort(
                      params_of({"page", "page_size", "with_signature",
                                 "with_immutable_status"}, args), args)
    IN  [request |-> GetRequest(path \o <<"/", "tags">>, NoParams),
         result |-> ListOf("Tag", resp)]

\* get_artifact_accessories: params is built, and self.get is called without it
get_artifact_accessories(args, resp) ==
    LET path == get_artifact_path
        params == with_query_and_sort(params_of({"page", "page_size"}, args), args)
    IN  [request |-> GetRequest(path \o <<"/", "accessories">>, NoParams),
         result |-> ListOf("Accessory", resp)]

\* get_artifacts: self.get(path, params=params, headers=...)
get_artifacts(args, resp) ==
    LET path == <<"/", "projects", "/", "p", "/", "repositories", "/", "r", "/", "artifacts">>
        params == with_query_and_sort(
                      params_of({"page", "page_size", "with_tag", "with_label",
                                 "with_scan_overview", "with_signature",
                                 "with_immutable_status", "with_accessory"}, args), args)
    IN  [request |-> GetRequest(path, params),
         result |-> ListOf("Artifact", resp)]

\* get_current_user_permissions: scope and relative only with a scope
get_current_user_permissions(args, resp) ==
    LET params == IF args.scope # "" THEN params_of({"scope", "relative"}, args)
                  ELSE NoParams
    IN  [request |-> GetRequest(<<"/", "api", "/", "users", "/", "current", "/",
                                  "permissions">>, params),
         result |-> ListOf("Permission", resp)]

RECURSIVE SeqsUpTo(_, _)
SeqsUpTo(S, n) ==
    IF n = 0 THEN {<<>>}
    ELSE {<<>>} \cup {<<x>> \o t : x \in S, t \in SeqsUpTo(S, n - 1)}

UserArrays == {Array(t) : t \in SeqsUpTo({"user_a", "user_b", "user_bad"}, MaxUsers)}

MimeTypes == {"report; version=1.1", "report; version=1.0"}

\* The entry of a response object under key k, none when v is "absent".
Entry(k, v) == IF v = "absent" THEN <<>> ELSE <<[key |-> k, value |-> v]>>

ReportValues == {"absent", "report", "report_bad", "{}", "null"}

\* Response objects with or without an entry under each MIME type, and the
\* responses that are no object.
VulnerabilityResponses ==
    {Object(Entry("report; version=1.0", v0) \o Entry("report; version=1.1", v1)) :
        v0 \in ReportValues, v1 \in ReportValues}
    \cup {Array(<<>>), Text(<<>>), None}

\* What self.delete can return for /scanners/{registration_id}: nothing, an
\* empty object or array, a registration, and an object that is none.
ScannerResponses ==
    {None, Object(<<>>), Array(<<>>),
     Object(Entry("uuid", "id_a")), Object(Entry("uuid", "id_b")),
     Object(Entry("uuid", "{}"))}

\* The arguments a caller may pass to the listing methods.
ListingArgs ==
    {[args0 EXCEPT !.query = q, !.sort = s, !.page = p, !.with_signature = ws,
                   !.with_immutable_status = wi] :
        q \in {"", "name=x"}, s \in {"", "name"}, p \in {"1", "2"},
        ws \in {"False", "True"}, wi \in {"False", "True"}}

PermissionArgs ==
    {[args0 EXCEPT !.scope = sc, !.relative = r] :
        sc \in {"", "/project/1"}, r \in {"False", "True"}}

\* What self.get gives a listing method: the array of the endpoint.
Listing(good) == {Array(<<>>), Array(<<good>>), Array(<<good, "bad">>)}

EndpointInputs ==
    {[ep0 EXCEPT !.method = "get_users", !.resp = r] : r \in UserArrays}
    \cup
    {[ep0 EXCEPT !.method = "get_artifact_vulnerabilities", !.resp = r, !.mime_type = m] :
        r \in VulnerabilityResponses, m \in MimeTypes}
    \cup
    {[ep0 EXCEPT !.method = "delete_scanner", !.resp = r, !.missing_ok = b] :
        r \in ScannerResponses, b \in BOOLEAN}
    \cup
    {[ep0 EXCEPT !.method = "get_artifact_tags", !.args = a, !.resp = r] :
        a \in ListingArgs, r \in Listing("tag_a")}
    \cup
    {[ep0 EXCEPT !.method = "get_artifact_accessories", !.args = a, !.resp = r] :
        a \in {b \in ListingArgs : b.with_signature = "False"
                                    /\ b.with_immutable_status = "False"},
        r \in Listing("accessory_a")}
    \cup
    {[ep0 EXCEPT !.method = "get_artifacts", !.args = a, !.resp = r] :
        a \in ListingArgs, r \in Listing("artifact_a")}
    \cup
    {[ep0 EXCEPT !.method = "get_current_user_permissions", !.args = a, !.resp = r] :
        a \in PermissionArgs, r \in Listing("permission_a")}

EndpointInit ==
    /\ chk = chk0
    /\ client = client0
    /\ enc = enc0
    /\ ep \in EndpointInputs
    /\ TransportInit
    /\ up = TRUE
    /\ drops = 0

Finish(r) ==
    /\ ep' = [ep EXCEPT !.done = TRUE, !.value = r.value, !.exc = r.exc]
    /\ UNCHANGED <<chk, client, enc, tasks, transportVars>>

GetUsers ==
    /\ ep.method = "get_users"
    /\ ~ep.done
    /\ Finish(get_users(ep.resp))

GetArtifactVulnerabilities ==
    /\ ep.method = "get_artifact_vulnerabilities"
    /\ ~ep.done
    /\ Finish(get_artifact_vulnerabilities(ep.resp, ep.mime_type))

\* An endpoint method that sends one GET and gives its caller the result.
FinishCall(r) ==
    /\ ep' = [ep EXCEPT !.done = TRUE, !.request = r.request, !.value = r.result.value,
                         !.exc = r.result.exc]
    /\ UNCHANGED <<chk, client, enc, tasks, transportVars>>

GetArtifactTags ==
    /\ ep.method = "get_artifact_tags"
    /\ ~ep.done
    /\ FinishCall(get_artifact_tags(ep.args, ep.resp))

GetArtifactAccessories ==
    /\ ep.method = "get_artifact_accessories"
    /\ ~ep.done
    /\ FinishCall(get_artifact_accessories(ep.args, ep.resp))

GetArtifacts ==
    /\ ep.method = "get_artifacts"
    /\ ~ep.done
    /\ FinishCall(get_artifacts(ep.args, ep.resp))

GetCurrentUserPermissions ==
    /\ ep.method = "get_current_user_permissions"
    /\ ~ep.done
    /\ FinishCall(get_current_user_permissions(ep.args, ep.resp))

DeleteScanner ==
    /\ ep.method = "delete_scanner"
    /\ ~ep.done
    /\ Finish(delete_scanner(ep.resp, ep.missing_ok))

EndpointNext ==
    \/ GetUsers
    \/ GetArtifactVulnerabilities
    \/ DeleteScanner
    \/ GetArtifactTags
    \/ GetArtifactAccessories
    \/ GetArtifacts
    \/ GetCurrentUserPermissions

EndpointSpec == EndpointInit /\ [][EndpointNext]_vars

----------------------------------------------------------------------------
(* The verb methods called with headers of the caller *)

\* headers=None, a replaced Authorization, the extra header of get_artifacts,
\* and a replaced Accept together with the extra header.
CallerHeaders ==
    {NoHeaders,
     [NoHeaders EXCEPT !["Authorization"] = <<"Bearer", "t">>],
     [NoHeaders EXCEPT !["X-Accept-Vulnerabilities"] = <<"mime">>],
     [NoHeaders EXCEPT !["Accept"] = <<"text/plain">>,
                       !["X-Accept-Vulnerabilities"] = <<"mime">>]}

\* params=None and a params mapping of the caller.
CallerParams == {NoParams, [NoParams EXCEPT !["page"] = "1", !["q"] = "name=x"]}

HeaderCall ==
    \E verb \in Verbs, params \in CallerParams, headers \in CallerHeaders,
       follow_links, missing_ok \in BOOLEAN :
        /\ verb \notin {"get", "get_text"} => follow_links
        /\ verb # "delete" => ~missing_ok
        /\ Call(verb, params, headers, follow_links, missing_ok)

\* The clock stands still here: headers do not depend on it, and a retry that
\* sleeps for less than a tick follows every connection failure all the same.
HeaderNext ==
    \/ HeaderCall
    \/ Receive
    \/ ReceiveRequestError
    \/ Wake
    \/ Reset
    \/ EnvUp

HeaderSpec == Init /\ [][HeaderNext]_vars

----------------------------------------------------------------------------
(* A GET against an endpoint that is unreachable at first, becomes reachable *)
(* before max_time has passed, stays reachable and answers with success.     *)

\* The retry budget the endpoint has to come up in, in seconds.
RetryBudget == 30

FairCall ==
    \E follow_links \in BOOLEAN : Call("get", NoParams, NoHeaders, follow_links, FALSE)

FairReceive ==
    /\ stack # <<>>
    /\ \E resp \in ResponseSet(Top(stack).path) :
          /\ ~raise_for_status(resp)
          /\ ReceiveResponse(resp)

FairTick ==
    /\ up \/ now + TickLen < RetryBudget
    /\ Tick

FairNext ==
    \/ FairCall
    \/ FairReceive
    \/ ReceiveRequestError
    \/ Wake
    \/ Reset
    \/ FairTick
    \/ EnvUp

FairSpec ==
    /\ Init
    /\ [][FairNext]_vars
    /\ WF_vars(FairReceive)
    /\ WF_vars(ReceiveRequestError)
    /\ WF_vars(Wake)
    /\ WF_vars(FairTick)
    /\ WF_vars(EnvUp)

----------------------------------------------------------------------------
(* Two get() calls that follow links, awaited concurrently on the same       *)
(* client: the event loop resumes either one whenever its response arrives.  *)

\* The resource of the endpoint of task t that its k-th request is served.
Resource(t, k) == (t - 1) * MaxPages + k

\* The pages of the endpoint of task t: arrays, linked or not, and an error.
TaskResponses(t, k) ==
    LET arrays == {[content_type |-> "application/json",
                    body |-> Array(PageItems(Resource(t, k), n))] : n \in 0..MaxItems}
    IN  {Response(200, b, l) : b \in arrays, l \in {x \in BOOLEAN : x => k < MaxPages}}
        \cup {Response(404, [content_type |-> "", body |-> Text(<<>>)], FALSE)}

TaskCall(t) ==
    /\ tasks[t].state = "idle"
    /\ tasks' = [tasks EXCEPT ![t] =
                    [@ EXCEPT !.state = "running",
                              !.stack = <<Attempt(NewFrame("get", 1, OwnPath, NoParams,
                                                           NoHeaders, TRUE, FALSE))>>]]
    /\ UNCHANGED <<chk, client, enc, ep, transportVars>>

ResumeThroughEveryChain(ts, t, v) ==
    LET other == CHOOSE u \in Tasks : u # t
        awaiting == IF ts[other].stack = <<>> THEN <<>> ELSE Pop(ts[other].stack)
    IN  Unwind(awaiting \o Pop(ts[t].stack), v, 0).value
\* The value the innermost get of task t returned travels up the chain of
\* invocations of that task: data is a local of each of them.
Resume(ts, t, v) == Unwind(Pop(ts[t].stack), v, 0).value

\* _get of the innermost invocation of task t after its response arrived.
TaskReceive(t, resp) ==
    /\ tasks[t].state = "running"
    /\ LET f == Top(tasks[t].stack)
           exc == check_response_status(resp, f.missing_ok)
           j == handle_optional_json_response(resp)
           c == continuation(f, LinkValue(f.path))
           seen == Append(tasks[t].pages, resp)
           returned(v) == [tasks[t] EXCEPT !.state = "returned", !.stack = <<>>,
                                           !.pages = seen, !.value = Resume(tasks, t, v)]
       IN  tasks' = [tasks EXCEPT ![t] =
                IF exc.kind # "none"
                THEN [@ EXCEPT !.state = "raised", !.stack = <<>>, !.pages = seen,
                               !.exc = exc]
                ELSE IF j = None THEN returned(Text(resp.body.items))
                ELSE IF FollowLink(resp, f.follow_links)
                THEN [@ EXCEPT !.pages = seen,
                               !.stack = Append(
                                   [@ EXCEPT ![Len(@)] =
                                       [f EXCEPT !.data = j, !.phase = "awaiting"]],
                                   Attempt(NewFrame("get", f.path + 1, c.path_arg, c.params,
                                                    c.headers, TRUE, FALSE)))]
                ELSE returned(j)]
    /\ UNCHANGED <<chk, client, enc, ep, transportVars>>

ConcurrentCall == \E t \in Tasks : TaskCall(t)

ConcurrentReceive ==
    \E t \in Tasks :
        /\ tasks[t].stack # <<>>
        /\ \E resp \in TaskResponses(t, Top(tasks[t].stack).path) : TaskReceive(t, resp)

ConcurrentNext ==
    \/ ConcurrentCall
    \/ ConcurrentReceive

ConcurrentSpec == Init /\ [][ConcurrentNext]_vars

----------------------------------------------------------------------------
(* Properties *)

Finished == outcome.state \in {"returned", "raised"}
Returned == outcome.state = "returned"
Raised(kind) == outcome.state = "raised" /\ outcome.exc.kind = kind

TypedKinds ==
    {"BadRequest", "Unauthorized", "Forbidden", "NotFound", "PreconditionFailed",
     "InternalServerError"}

TypedKind(code) ==
    CASE code = 400 -> "BadRequest"
      [] code = 401 -> "Unauthorized"
      [] code = 403 -> "Forbidden"
      [] code = 404 -> "NotFound"
      [] code = 412 -> "PreconditionFailed"
      [] code = 500 -> "InternalServerError"
      [] OTHER -> "StatusError"

\* C1: with missing_ok false a response with status 400, 401, 403, 404, 412 or
\* 500 makes check_response_status raise BadRequest, Unauthorized, Forbidden,
\* NotFound, PreconditionFailed or InternalServerError respectively, and no
\* other status code makes it raise one of these six kinds.
C1_TypedErrors ==
    chk.called =>
        LET code == chk.response.status_code
        IN  /\ (~chk.missing_ok /\ code \in {400, 401, 403, 404, 412, 500})
                  => chk.exc.kind = TypedKind(code)
            /\ chk.exc.kind \in TypedKinds => chk.exc.kind = TypedKind(code)

C1_Witness ==
    /\ chk.called
    /\ ~chk.missing_ok
    /\ chk.response.status_code = 412
    /\ chk.exc.kind = "PreconditionFailed"

\* C2: for every 2xx status check_response_status raises nothing, and for
\* every other status outside {400,401,403,404,412,500}, 1xx and 3xx included,
\* it raises StatusError itself.
C2_GenericStatusError ==
    chk.called =>
        LET code == chk.response.status_code
        IN  /\ code \in 200..299 => chk.exc = NoExc
            /\ (code \notin 200..299 /\ code \notin {400, 401, 403, 404, 412, 500})
                  => chk.exc.kind = "StatusError"

C2_Witness ==
    /\ chk.called
    /\ chk.response.status_code = 301
    /\ chk.exc.kind = "StatusError"

\* C3: every StatusError raised for a non-2xx response carries the status
\* code of the response, the errors parsed from its JSON error body, and the
\* HTTPStatusError as its cause.
C3_ErrorCarriesBody ==
    (chk.called /\ chk.exc.kind # "none") =>
        /\ status_code(chk.exc) = chk.response.status_code
        /\ chk.exc.errors = try_parse_errors(chk.response).errors
        /\ chk.exc.cause.type = "HTTPStatusError"

\* C4: a delete with missing_ok=true answered by 404 raises nothing and gives
\* None to the caller whatever the body is; with missing_ok=false the same
\* 404 raises NotFound.
C4_MissingOkGivesNone ==
    (outcome.verb = "delete" /\ Finished /\ pages # <<>> /\ pages[1].status_code = 404) =>
        IF outcome.missing_ok
        THEN Returned /\ outcome.value = None
        ELSE Raised("NotFound")

Success(r) == ~raise_for_status(r)
IsArrayPage(r) == Success(r) /\ is_json(r) /\ r.body.kind = "array"
NonArrayJson(r) == Success(r) /\ is_json(r) /\ r.body.kind # "array"

\* The items of pages 1..n, in link order.
RECURSIVE ConcatPages(_, _)
ConcatPages(ps, n) ==
    IF n = 0 THEN <<>> ELSE ConcatPages(ps, n - 1) \o ps[n].body.items

\* Pages 1..n are JSON arrays, each linked to the next.
LinkedArrays(ps, n) ==
    \A i \in 1..n : IsArrayPage(ps[i]) /\ (i < n => ps[i].link)

\* N >= 1 array pages linked in sequence, the last one without a link header.
ArrayChain(ps) ==
    /\ ps # <<>>
    /\ LinkedArrays(ps, Len(ps))
    /\ ~ps[Len(ps)].link

\* The call is a get that follows links and did not end in a transport failure.
PaginatedGetDone ==
    /\ outcome.verb = "get"
    /\ outcome.follow_links
    /\ Finished
    /\ outcome.exc.kind # "RequestError"

\* C5: a GET that follows links over N >= 1 array pages linked in sequence
\* returns the concatenation of the pages in link order (its length is the sum
\* of the page sizes).
C5_Concatenation ==
    (PaginatedGetDone /\ ArrayChain(pages)) =>
        /\ Returned
        /\ outcome.value = Array(ConcatPages(pages, Len(pages)))

C5_Witness ==
    /\ PaginatedGetDone
    /\ ArrayChain(pages)
    /\ Len(pages) = 3
    /\ Len(pages[1].body.items) = 2
    /\ Len(pages[3].body.items) = 1
    /\ Len(outcome.value.items) >= 4

C7_NoFollow ==
    (outcome.verb = "get" /\ ~outcome.follow_links) =>
        /\ \A i \in 1..Len(sent) : sent[i] = 1
        /\ Len(pages) <= 1
        /\ (Finished /\ connErrors = 0) => Len(sent) = 1
        /\ (Finished /\ pages # <<>> /\ IsArrayPage(pages[1]) /\ pages[1].link) =>
              Returned /\ outcome.value = pages[1].body

C7_Witness ==
    /\ outcome.verb = "get" /\ ~outcome.follow_links
    /\ Returned
    /\ pages[1].link
    /\ sent = <<1>>
    /\ outcome.value = Array(<<11, 12>>)

\* The error status of page p is tolerated: delete with missing_ok on a 404.
Tolerated(p) ==
    outcome.verb = "delete" /\ outcome.missing_ok /\ pages[p].status_code = 404

\* The request that was answered by page p was the last one of the call.
LastRequestWas(p) ==
    /\ stack = <<>>
    /\ p = Len(pages)
    /\ Len(sent) < MaxSent => sent[Len(sent)] = p

\* C8 as stated: whenever the server answers a verb method with a non-2xx
\* status, the call ends with that request and the typed error is raised.
C8_ErrorStatusRaised ==
    \A p \in 1..Len(pages) :
        raise_for_status(pages[p]) =>
            /\ LastRequestWas(p)
            /\ Raised(TypedKind(pages[p].status_code))

\* C8 (amended): a non-2xx answer is never retried: the call of get, post,
\* put, patch or delete ends with that request, raising the typed error for
\* the status, except that delete with missing_ok=true returns on a 404.
C8_ErrorStatusNotRetried ==
    \A p \in 1..Len(pages) :
        raise_for_status(pages[p]) =>
            /\ LastRequestWas(p)
            /\ IF Tolerated(p) THEN Returned
               ELSE /\ Raised(TypedKind(pages[p].status_code))
                    /\ status_code(outcome.exc) = pages[p].status_code

C8_Witness ==
    /\ outcome.verb = "get"
    /\ Len(pages) = 2
    /\ pages[2].status_code = 500
    /\ Raised("InternalServerError")
    /\ sent = <<1, 2>>

\* C9: a POST sends its request at most twice in total, and a POST whose
\* attempts all failed at connection level ends by raising that failure.
C9_PostAtMostTwice ==
    outcome.verb = "post" =>
        /\ Len(sent) <= 2
        /\ (Finished /\ connErrors >= Len(sent)) => Raised("RequestError")

C9_Witness ==
    /\ outcome.verb = "post"
    /\ connErrors = 1
    /\ sent = <<1>>
    /\ Raised("RequestError")

\* What a single page decodes to in _get.
Decoded(r) == IF is_json(r) THEN r.body ELSE Text(r.body.items)

\* The value returned is the payload of the endpoint.
Payload ==
    /\ ArrayChain(pages) => outcome.value = Array(ConcatPages(pages, Len(pages)))
    /\ Len(pages) = 1 => outcome.value = Decoded(pages[1])

\* C10: a GET against an endpoint that fails with connection errors at first
\* and becomes reachable before the 30 second budget is spent eventually
\* returns the payload of the endpoint; the caller sees no connection error.
C10_GetEventuallySucceeds ==
    /\ [](outcome.verb = "get" => outcome.state # "raised")
    /\ (outcome.verb = "get" /\ outcome.state = "running")
          ~> (Returned /\ Payload)

C10_Witness ==
    /\ outcome.verb = "get"
    /\ Returned
    /\ connErrors >= 2
    /\ now < RetryBudget
    /\ outcome.value = Array(<<11>>)

\* The exception kinds of harborapi/exceptions.py.
HarborKinds == {"HarborAPIException", "StatusError"} \cup TypedKinds

\* A connection-level failure reached the caller.
ConnectionFailureRaised ==
    /\ outcome.state = "raised"
    /\ outcome.exc.cause.type # "HTTPStatusError"

\* The retry budget of the verb was spent when the caller got the failure:
\* post had its single attempt, the others ran for max_time seconds.
BudgetSpent ==
    IF outcome.verb = "post" THEN connErrors >= 1
    ELSE now >= max_time(outcome.verb)

\* C11: a connection-level failure of a verb method reaches the caller only
\* after the retry budget of that method is spent, and it reaches the caller
\* as an exception of the library's own taxonomy that wraps the failure, not
\* as the raw exception of the transport library.
C11_ConnectionFailureWrapped ==
    ConnectionFailureRaised =>
        /\ BudgetSpent
        /\ outcome.exc.kind \in HarborKinds

\* The part of C11 that the code keeps: no failure before the budget is spent.
C11_OnlyAfterBudget == ConnectionFailureRaised => BudgetSpent

\* The error status of page p is one the call does not tolerate.
Refused(p) == raise_for_status(pages[p]) /\ ~Tolerated(p)

\* C12: every verb method applies the status check to every response: once a
\* response with a non-2xx status has arrived the call has raised the error of
\* that status and never returns normally, the one exception being delete
\* with missing_ok=true answered by 404.
C12_StatusCheckedByEveryVerb ==
    \A p \in 1..Len(pages) :
        Refused(p) =>
            /\ ~Returned
            /\ outcome.state = "raised"
            /\ outcome.exc.cause.type = "HTTPStatusError"
            /\ status_code(outcome.exc) = pages[p].status_code

C12_Witness ==
    /\ outcome.verb = "patch"
    /\ pages # <<>>
    /\ pages[1].status_code = 404
    /\ Raised("NotFound")

\* What the caller's headers and the two defaults merge to, the caller's
\* value standing under every key the caller supplied.
MergedHeaders(headers) ==
    [k \in HeaderKeys |->
        IF headers[k] # <<>> THEN headers[k]
        ELSE IF k = "Authorization" THEN <<"Basic">> \o client.credentials
        ELSE IF k = "Accept" THEN <<"application/json">>
        ELSE <<>>]

\* C13: every request of a call to get, get_text, post, put, patch or delete,
\* first attempts, retries and pagination continuation requests alike, carries
\* Authorization "Basic <token>" and Accept "application/json" unless the
\* caller supplied a header under that key, which is then sent with the
\* caller's value, and carries every other header of the caller in addition.
C13_HeadersOnEveryRequest ==
    \A i \in 1..Len(sentHeaders) : sentHeaders[i] = MergedHeaders(outcome.headers)

\* The part of C13 that holds: the requests for the path of the call itself.
C13_HeadersOnOwnPath ==
    \A i \in 1..Len(sentHeaders) :
        IF sent[i] = 1 THEN sentHeaders[i] = MergedHeaders(outcome.headers)
        ELSE sentHeaders[i] = MergedHeaders(NoHeaders)

SuppliedPair == client.args.username # <<>> /\ client.args.secret # <<>>
SuppliedToken == client.args.credentials # <<>>

\* C14: construction with neither username and secret nor a token fails with
\* a ValueError and yields no client; with username and secret and a token the
\* client's token is the one derived from username and secret, the supplied
\* token being ignored; with a token only, that token is used unchanged.
C14_CredentialsPrecedence ==
    client.state # "new" =>
        /\ (~SuppliedPair /\ ~SuppliedToken) =>
              /\ client.state = "failed" /\ client.exc = "ValueError"
              /\ client.credentials = <<>> /\ client.url = <<>>
        /\ (SuppliedPair /\ SuppliedToken) =>
              /\ client.state = "built"
              /\ client.credentials = <<"b64">> \o client.args.username \o <<":">>
                                         \o client.args.secret
              /\ client.credentials # client.args.credentials
        /\ (~SuppliedPair /\ SuppliedToken) =>
              /\ client.state = "built"
              /\ client.credentials = client.args.credentials

C14_Witness ==
    /\ client.state = "built"
    /\ SuppliedPair /\ SuppliedToken
    /\ client.credentials = <<"b64", "user", ":", "secret">>

\* The URL the rule of C15 gives: slashes at the end stripped, then nothing,
\* "/<version>" or "/api/<version>" appended.
RuleUrl(url, version) ==
    LET u == rstrip(url)
    IN  IF In(<<"/", "api", "/", "v">>, u) THEN u
        ELSE IF In(<<"/", "api">>, u) THEN u \o <<"/">> \o version
        ELSE u \o <<"/", "api", "/">> \o version

NoTrailingSlash(url) == url = <<>> \/ url[Len(url)] # "/"

\* C15 as stated: the base URL of a constructed client is the given URL with
\* its trailing slashes stripped, left at that if it contains "/api/v"
\* whatever the version, else with "/<version>" appended if it contains
\* "/api", else with "/api/<version>" appended; it has no trailing slash.
C15_UrlRule ==
    client.state = "built" =>
        /\ client.url = RuleUrl(client.args.url, client.args.version)
        /\ NoTrailingSlash(client.url)

\* C15 (amended): the rule holds whenever a non-empty version is requested;
\* with an empty version nothing is appended, whatever the URL contains, and
\* the base URL is the given URL stripped of its trailing slashes.
C15_UrlRuleForVersion ==
    client.state = "built" =>
        /\ client.url = IF client.args.version # <<>>
                        THEN RuleUrl(client.args.url, client.args.version)
                        ELSE rstrip(client.args.url)
        /\ NoTrailingSlash(client.url)

C15_Witness ==
    /\ client.state = "built"
    /\ client.args.version = <<"v", "1.0">>
    /\ client.args.url = <<"https:", "/", "/", "h", "/", "api", "/", "v", "2.0", "/">>
    /\ client.url = <<"https:", "/", "/", "h", "/", "api", "/", "v", "2.0">>

\* How often sub occurs in s.
Occurrences(sub, s) ==
    Cardinality({i \in 1..(Len(s) - Len(sub) + 1) : SubSeq(s, i, i + Len(sub) - 1) = sub})

\* C16: whatever URL and version a client is constructed with, its base URL
\* contains the segment "/api/<version>" exactly once and does not end in "/".
C16_OneVersionSegment ==
    client.state = "built" =>
        /\ Occurrences(<<"/", "api", "/">> \o client.args.version, client.url) = 1
        /\ NoTrailingSlash(client.url)

\* The part of C16 that holds: no base URL ends in "/".
C16_NoTrailingSlash == client.state = "built" => NoTrailingSlash(client.url)

\* The JSON a field is expected as: a field or key the caller did not set is
\* not in the body.
ExpectedJson(v) ==
    CASE v \in {"unset", "absent"} -> "absent"
      [] v = "None" -> "null"
      [] OTHER -> "\"a\""

\* C17: the JSON body post, put and patch send for a request model holds the
\* fields the caller set and no field the caller left unset; a raw mapping is
\* sent as it is.
C17_OnlySetFieldsSent ==
    enc.done => \A f \in Fields : enc.sent[f] = ExpectedJson(enc.json[f])

\* The part of C17 that holds: a raw mapping is sent unchanged, and the
\* fields of a model that were set are sent with their values.
C17_SetFieldsSent ==
    enc.done =>
        \A f \in Fields : enc.json[f] # "unset" => enc.sent[f] = ExpectedJson(enc.json[f])

\* The call returned the decoding of one successful response.
OneResponseDecoded ==
    /\ Returned
    /\ outcome.verb # "post"
    /\ Len(pages) = 1
    /\ Success(pages[1])

EmptyBody(r) == ~is_json(r) /\ r.body.items = <<>>

\* C18: on a successful response a JSON body is returned parsed, a non-JSON
\* body is returned as its text by get and get_text, and get, put, patch and
\* delete all return None for an empty or absent body, which is neither the
\* empty object nor the empty array.
C18_DecodedResult ==
    OneResponseDecoded =>
        LET r == pages[1]
        IN  /\ is_json(r) => outcome.value = r.body
            /\ (~is_json(r) /\ ~EmptyBody(r) /\ outcome.verb \in {"get", "get_text"})
                  => outcome.value = Text(r.body.items)
            /\ (EmptyBody(r) /\ outcome.verb \in {"get", "put", "patch", "delete"})
                  => /\ outcome.value = None
                     /\ outcome.value \notin {Object(<<>>), Array(<<>>)}

\* The part of C18 that holds: the same with get left out of the last case.
C18_DecodedResultButGet ==
    OneResponseDecoded =>
        LET r == pages[1]
        IN  /\ is_json(r) => outcome.value = r.body
            /\ (~is_json(r) /\ ~EmptyBody(r) /\ outcome.verb \in {"get", "get_text"})
                  => outcome.value = Text(r.body.items)
            /\ (EmptyBody(r) /\ outcome.verb \in {"put", "patch", "delete"})
                  => outcome.value = None

UsersDone == ep.done /\ ep.method = "get_users"

\* C19: get_users raises ValidationError for the whole call, returning no
\* list at all, when at least one item of the response array fails the
\* schema; when every item fits it returns their models in order; and no
\* object construct_model returned holds data that fails its schema.
C19_ValidationEscalates ==
    /\ UsersDone =>
          IF \E i \in 1..Len(ep.resp.items) : ~Fits("UserResp", ep.resp.items[i])
          THEN ep.exc = "ValidationError" /\ ep.value = None
          ELSE /\ ep.exc = "none"
               /\ ep.value.kind = "list"
               /\ Len(ep.value.items) = Len(ep.resp.items)
               /\ \A i \in 1..Len(ep.resp.items) :
                     ep.value.items[i] = Model("UserResp", ep.resp.items[i])
    /\ ep.done =>
          \A i \in 1..Len(ep.value.items) :
              Fits(ep.value.items[i].cls, ep.value.items[i].data)

C19_Witness ==
    /\ UsersDone
    /\ ep.resp.items = <<"user_a", "user_bad", "user_b">>
    /\ ep.exc = "ValidationError"
    /\ ep.value = None

VulnerabilitiesDone ==
    ep.done /\ ep.method = "get_artifact_vulnerabilities" /\ ep.resp.kind = "object"

HasKey(entries, key) == \E i \in 1..Len(entries) : entries[i].key = key

\* The value of the entry under the key.
ValueOf(entries, key) ==
    LET i == CHOOSE n \in 1..Len(entries) : entries[n].key = key
    IN  entries[i].value

\* C20 as stated: get_artifact_vulnerabilities returns None without raising
\* when the response object has no entry under exactly the requested MIME
\* type, and returns the report parsed from that entry when it has one.
C20_ReportUnderMimeKey ==
    VulnerabilitiesDone =>
        /\ ep.exc = "none"
        /\ IF HasKey(ep.resp.items, ep.mime_type)
           THEN ep.value = [kind |-> "model",
                            items |-> <<Model("HarborVulnerabilityReport",
                                              ValueOf(ep.resp.items, ep.mime_type))>>]
           ELSE ep.value = None

\* C20 (amended): None without raising when the response object has no entry
\* under exactly the requested MIME type or has an empty one (null or {});
\* the parsed report when the entry is a non-empty report that fits the
\* schema; ValidationError when it is non-empty and does not fit.
C20_NonEmptyReportUnderMimeKey ==
    VulnerabilitiesDone =>
        IF ~HasKey(ep.resp.items, ep.mime_type)
        THEN ep.exc = "none" /\ ep.value = None
        ELSE LET report == ValueOf(ep.resp.items, ep.mime_type)
             IN  IF report \in {"null", "{}"} THEN ep.exc = "none" /\ ep.value = None
                 ELSE IF Fits("HarborVulnerabilityReport", report)
                 THEN /\ ep.exc = "none"
                      /\ ep.value = [kind |-> "model",
                                      items |-> <<Model("HarborVulnerabilityReport", report)>>]
                 ELSE ep.exc = "ValidationError" /\ ep.value = None

C20_Witness ==
    /\ VulnerabilitiesDone
    /\ ep.mime_type = "report; version=1.1"
    /\ ep.resp = Object(<<[key |-> "report; version=1.0", value |-> "report"]>>)
    /\ ep.value = None
    /\ ep.exc = "none"

ScannerDone == ep.method = "delete_scanner" /\ ep.done

CarriesRegistration(resp) == ~Not(resp) /\ Fits("ScannerRegistration", resp)

\* C21: delete_scanner without missing_ok raises HarborAPIException when the
\* DELETE gave no body or an empty object, and returns the ScannerRegistration
\* of the body when it carries one; with missing_ok an empty body gives None.
C21_DeleteScannerEmptyBody ==
    ScannerDone =>
        /\ ~ep.missing_ok /\ ep.resp \in {None, Object(<<>>)}
                => ep.exc = "HarborAPIException" /\ ep.value = None
        /\ ~ep.missing_ok /\ CarriesRegistration(ep.resp)
                => /\ ep.exc = "none"
                   /\ ep.value = [kind |-> "model",
                                   items |-> <<Model("ScannerRegistration", ep.resp)>>]
        /\ ep.missing_ok /\ ep.resp = None
                => ep.exc = "none" /\ ep.value = None

C21_Witness ==
    /\ ScannerDone
    /\ ~ep.missing_ok
    /\ ep.resp = Object(<<>>)
    /\ ep.exc = "HarborAPIException"

\* C23: pagination stops at the first non-array page: once a fetched page is
\* JSON but not an array, the GET sends no request for a later page, even when
\* the response of that page carries a link header.
C23_StopsAtNonArrayPage ==
    outcome.verb = "get" =>
        \A k \in 1..Len(pages) :
            NonArrayJson(pages[k]) => \A i \in 1..Len(sent) : sent[i] <= k

\* What does hold: a non-array page without a link header ends the requests.
C23_StopsAtUnlinkedNonArrayPage ==
    outcome.verb = "get" =>
        \A k \in 1..Len(pages) :
            (NonArrayJson(pages[k]) /\ ~pages[k].link) => \A i \in 1..Len(sent) : sent[i] <= k

\* C24: when a continuation page k >= 2 of a GET is answered with a non-2xx
\* status, the whole GET raises the typed error of that status and the caller
\* gets no partial result of the pages fetched before.
C24_ContinuationErrorRaises ==
    outcome.verb = "get" =>
        \A k \in 2..Len(pages) :
            raise_for_status(pages[k]) =>
                /\ Raised(TypedKind(pages[k].status_code))
                /\ outcome.value = None

C24_Witness ==
    /\ outcome.verb = "get"
    /\ Len(pages) = 3
    /\ Len(pages[1].body.items) = 2
    /\ pages[3].status_code = 404
    /\ Raised("NotFound")
    /\ outcome.value = None

\* Once a page was requested, no page before it is requested again.
NoPageRequestedAgain ==
    \A i \in 1..Len(sent) : \A j \in i..Len(sent) : sent[i] <= sent[j]

\* C26: when the fetch of page k fails with a connection error and a retry
\* then succeeds, pages 1..k-1 are not requested again, and the result holds
\* the items of every page exactly once, in link order.
C26_RetryKeepsEarlierPages ==
    (PaginatedGetDone /\ connErrors >= 1 /\ ArrayChain(pages)) =>
        /\ NoPageRequestedAgain
        /\ Returned
        /\ outcome.value = Array(ConcatPages(pages, Len(pages)))

\* What does hold: the result of the retried call.
C26_RetryKeepsItems ==
    (PaginatedGetDone /\ connErrors >= 1 /\ ArrayChain(pages)) =>
        Returned /\ outcome.value = Array(ConcatPages(pages, Len(pages)))

\* C27: with no connection failure, a GET that follows links over N linked
\* array pages sends exactly N requests, one per page in link order, and
\* returns; a call of any verb whose response has no link header sends
\* exactly one request.
C27_OneRequestPerPage ==
    (Finished /\ connErrors = 0) =>
        /\ (outcome.verb = "get" /\ outcome.follow_links /\ ArrayChain(pages)) =>
              Returned /\ sent = [i \in 1..Len(pages) |-> i]
        /\ (pages # <<>> /\ ~pages[1].link) => sent = <<1>>

C27_Witness ==
    /\ outcome.verb = "get" /\ outcome.follow_links
    /\ connErrors = 0
    /\ Returned
    /\ ArrayChain(pages)
    /\ sent = <<1, 2, 3>>

\* The request that _handle_pagination makes for the page after page p.
ContinuationRequest(p) ==
    [url |-> client.url \o LinkValue(p), params |-> NoParams]

\* C28: a continuation request is built from the link header alone: its URL
\* is the base URL of the client followed by the link value, it carries none
\* of the query parameters of the original call and none of the caller's
\* headers, only the default Authorization and Accept headers.
C28_ContinuationFromLinkAlone ==
    \A i \in 1..Len(sent) :
        sent[i] > 1 =>
            /\ sentRequests[i] = ContinuationRequest(sent[i] - 1)
            /\ sentHeaders[i] = MergedHeaders(NoHeaders)

C28_Witness ==
    /\ outcome.verb = "get"
    /\ outcome.params # NoParams
    /\ outcome.headers["X-Accept-Vulnerabilities"] # <<>>
    /\ Len(sent) >= 3 /\ sent[3] = 3
    /\ sentRequests[1].params = outcome.params
    /\ sentRequests[3] =
          [url |-> <<"https:", "/", "/", "h", "/", "api", "/", "v", "2.0",
                     "/", "users", "?page=", "3">>,
           params |-> NoParams]

\* The headers mapping each active invocation was given: the caller's for
\* the call itself, none for the continuation calls.
GivenHeaders(i) == IF i = 1 THEN outcome.headers ELSE NoHeaders

\* C29: no verb method changes the credential token, the base URL or the
\* configuration of the client, nor the headers mapping its caller passed in:
\* during and after any sequence of calls they have the values they had before.
C29_ClientAndHeadersUnchanged ==
    /\ client = client0
    /\ \A i \in 1..Len(stack) : stack[i].headers = GivenHeaders(i)

C29_Witness ==
    /\ client.credentials # <<>> /\ client.config = "config"
    /\ Len(stack) = 2
    /\ Len(sentHeaders) = 2
    /\ stack[1].headers["Accept"] = <<"text/plain">>
    /\ sentHeaders[1]["Authorization"] = <<"Basic">> \o client.credentials

\* The value of a parameter that is sent only when its argument is given.
WhenGiven(v) == IF v # "" THEN v ELSE "absent"

\* The parameters the listing method is declared to send for its arguments.
DeclaredParams(method, args) ==
    [k \in ParamKeys |->
        CASE k \in {"page", "page_size"} -> args[k]
          [] k = "q" -> WhenGiven(args.query)
          [] k = "sort" -> WhenGiven(args.sort)
          [] k \in {"with_signature", "with_immutable_status"} ->
                IF method = "get_artifact_accessories" THEN "absent" ELSE args[k]
          [] k \in {"with_tag", "with_label", "with_scan_overview", "with_accessory"} ->
                IF method = "get_artifacts" THEN args[k] ELSE "absent"
          [] OTHER -> "absent"]

\* C25: get_artifact_tags and get_artifact_accessories send the parameters
\* they declare with their GET: page and page_size always, q when a query is
\* given, sort when a sort is given (and with_signature and
\* with_immutable_status for tags), as get_artifacts does.
C25_DeclaredParamsSent ==
    (ep.done /\ ep.method \in {"get_artifact_tags", "get_artifact_accessories",
                                "get_artifacts"}) =>
        ep.request.params = DeclaredParams(ep.method, ep.args)

\* What does hold: get_artifacts sends them.
C25_ArtifactsParamsSent ==
    (ep.done /\ ep.method = "get_artifacts") =>
        ep.request.params = DeclaredParams(ep.method, ep.args)

PermissionsDone == ep.done /\ ep.method = "get_current_user_permissions"

\* scope and relative when a scope is given, no parameter otherwise.
ScopeParams(args) ==
    [k \in ParamKeys |->
        IF k \in {"scope", "relative"} /\ args.scope # "" THEN args[k] ELSE "absent"]

\* C30: get_current_user_permissions sends its GET to
\* <base URL>/users/current/permissions, with the parameters scope and
\* relative only when a scope is given.
C30_PermissionsRequest ==
    PermissionsDone =>
        /\ ep.request.url = client.url \o <<"/", "users", "/", "current", "/", "permissions">>
        /\ ep.request.params = ScopeParams(ep.args)

\* What does hold: the parameters of the request.
C30_PermissionsParams ==
    PermissionsDone => ep.request.params = ScopeParams(ep.args)

\* The items of the pages in ps.
ItemsIn(ps) ==
    UNION {{ps[k].body.items[i] : i \in 1..Len(ps[k].body.items)} : k \in 1..Len(ps)}

\* C22: when two paginated GETs on the same client interleave, each returns
\* exactly the concatenation of its own pages in link order, and what it
\* returns holds no item of a page of the other call.
C22_ConcurrentCallsIsolated ==
    \A t \in Tasks :
        (tasks[t].state = "returned" /\ ArrayChain(tasks[t].pages)) =>
            /\ tasks[t].value = Array(ConcatPages(tasks[t].pages, Len(tasks[t].pages)))
            /\ \A u \in Tasks \ {t} : \A i \in 1..Len(tasks[t].value.items) :
                  tasks[t].value.items[i] \notin ItemsIn(tasks[u].pages)

\* Call 1 returned its three pages while call 2 was between two of its pages.
C22_Witness ==
    /\ tasks[1].state = "returned"
    /\ Len(tasks[1].pages) = 3
    /\ Len(tasks[1].value.items) = 5
    /\ tasks[2].state = "running"
    /\ Len(tasks[2].stack) = 2
    /\ tasks[2].stack[1].data = Array(<<41, 42>>)

====
